---- MODULE Spec2Model ----
(***************************************************************************)
(* clarity-proxy: the quota cache in front of the Clarity export API       *)
(* (fetchClarityExport and the routes of src/server.js) and the            *)
(* normalisation and aggregation pipeline (normalizeUrlForMatch, num,      *)
(* aggregateAllMetricsFromExport).                                         *)
(*                                                                         *)
(* JavaScript strings are sequences of tokens.  A token is a character or  *)
(* a run of characters that no string operation of the program splits      *)
(* ("https:", "www.", a host name, a two-digit pair).  JavaScript values   *)
(* are tagged records.  JavaScript numbers are IEEE-754 doubles: a number  *)
(* is the pair (hi, lo) standing for hi * 2^53 + lo, and addition rounds   *)
(* to the nearest double, ties to even.                                    *)
(***************************************************************************)
EXTENDS Integers, Sequences, FiniteSets, TLC

VARIABLES
  cache,        \* the Map `cache`: a function from cache keys to entries
  clock,        \* what Date.now() returns
  inflight,     \* per request slot: the handler suspended at an upstream fetch
  nUpstream,    \* number of upstream calls issued so far
  last,         \* the outcome of the handler step taken last
  exportJson,   \* aggregation: the export handed to the aggregator
  targetFinalUrl, \* aggregation: the target URL
  filterName,   \* aggregation: which filterFn is passed
  out,          \* aggregation: the record returned
  phase,        \* aggregation: "build", "done"
  text,         \* functions: the string put together so far
  parts,        \* functions: the number of pieces text is made of
  applied,      \* functions: what was applied, "none" before
  result        \* functions: what it returned

vars == <<cache, clock, inflight, nUpstream, last,
          exportJson, targetFinalUrl, filterName, out, phase,
          text, parts, applied, result>>

cacheVars == <<cache, clock, inflight, nUpstream, last>>
aggVars == <<exportJson, targetFinalUrl, filterName, out, phase>>
fnVars == <<text, parts, applied, result>>

-----------------------------------------------------------------------------
(* Bounds of the model *)

MaxSlots == 2       \* requests in flight at once
MaxUpstream == 2    \* upstream calls issued in one run
MaxTicks == 2       \* clock steps of HalfTtl in one run
MaxBlocks == 2      \* blocks of an export
MaxRows == 3        \* rows of an export, over all its blocks
MaxParts == 4       \* pieces a URL is put together from
MaxToks == 3        \* characters of a string handed to the coercion

-----------------------------------------------------------------------------
(* JavaScript values *)

Null == [t |-> "null"]
NaNV == [t |-> "nan"]
Num(n) == [t |-> "num", hi |-> 0, lo |-> n]
Big(k, r) == [t |-> "num", hi |-> k, lo |-> r]       \* k * 2^53 + r
Str(s) == [t |-> "str", s |-> s]
Bool(b) == [t |-> "bool", b |-> b]

\* r.f, undefined (here Null) when the row has no such field
Get(r, f) == IF f \in DOMAIN r THEN r[f] ELSE Null

\* the truthiness of a value, as `||`, `!` and `if` take it
Truthy(v) ==
  CASE v.t = "null" -> FALSE
    [] v.t = "nan"  -> FALSE
    [] v.t = "num"  -> ~(v.hi = 0 /\ v.lo = 0)
    [] v.t = "str"  -> v.s # <<>>
    [] v.t = "bool" -> v.b

-----------------------------------------------------------------------------
(* Strings *)

Space == " "
LongSeg == "a*2000"     \* a run of 2000 letters a
HexPairs == {"41", "25", "20"}
Schemes == {"http:", "https:"}

\* the number of characters of a token
TokLen(c) ==
  CASE c = "https:" -> 6
    [] c = "http:"  -> 5
    [] c = "www."   -> 4
    [] c = LongSeg  -> 2000
    [] c \in {"ex", "EX"} \cup HexPairs -> 2
    [] OTHER -> 1

RECURSIVE StrLength(_)
StrLength(s) == IF s = <<>> THEN 0 ELSE TokLen(Head(s)) + StrLength(Tail(s))

RECURSIVE TrimLeft(_)
TrimLeft(s) == IF s # <<>> /\ Head(s) = Space THEN TrimLeft(Tail(s)) ELSE s

RECURSIVE TrimRight(_)
TrimRight(s) ==
  IF s # <<>> /\ s[Len(s)] = Space THEN TrimRight(SubSeq(s, 1, Len(s) - 1)) ELSE s

\* String.prototype.trim
Trim(s) == TrimRight(TrimLeft(s))

\* the index of the first token of s that is in set cs, Len(s) + 1 when none is
RECURSIVE FirstIn(_, _, _)
FirstIn(s, cs, i) ==
  IF i > Len(s) THEN i
  ELSE IF s[i] \in cs THEN i ELSE FirstIn(s, cs, i + 1)

\* s.split(c)[0]
SplitFirst(s, c) == SubSeq(s, 1, FirstIn(s, {c}, 1) - 1)

\* s.replace(/\/$/, ""), and the slice(0, -1) of a string that endsWith("/")
StripSlash(s) ==
  IF s # <<>> /\ s[Len(s)] = "/" THEN SubSeq(s, 1, Len(s) - 1) ELSE s

\* toLowerCase, token by token
LowerTok(c) ==
  CASE c = "EX" -> "ex"
    [] c = "A"  -> "a"
    [] c = "Paid" -> "paid"
    [] c = "Search" -> "search"
    [] c = "Organic" -> "organic"
    [] c = "Google" -> "google"
    [] c = "CPC" -> "cpc"
    [] OTHER    -> c

LowerCase(s) == [i \in 1..Len(s) |-> LowerTok(s[i])]

-----------------------------------------------------------------------------
(* new URL(s), for the strings of UrlLang: an http: or https: scheme in     *)
(* front when there is one, and a host written with HostToks.               *)

HostToks == {"www.", "ex", "EX", "a", "A", LongSeg}

RECURSIVE SkipSlashes(_)
SkipSlashes(s) == IF s # <<>> /\ Head(s) = "/" THEN SkipSlashes(Tail(s)) ELSE s

\* what follows the scheme and the slashes after it
AfterScheme(s) == SkipSlashes(Tail(s))

HostEnd(s) == FirstIn(AfterScheme(s), {"/", "?", "#"}, 1)

HostRaw(s) == SubSeq(AfterScheme(s), 1, HostEnd(s) - 1)

\* new URL(s) does not throw: a special scheme and a host that is not empty
\* and holds no forbidden code point (a space)
UrlParses(s) ==
  /\ s # <<>>
  /\ Head(s) \in Schemes
  /\ HostRaw(s) # <<>>
  /\ \A i \in 1..Len(HostRaw(s)) : HostRaw(s)[i] \in HostToks

InUrlLang(s) ==
  /\ \A i \in 2..Len(s) : s[i] \notin Schemes
  /\ (s # <<>> /\ Head(s) \in Schemes) =>
       \A i \in 1..Len(HostRaw(s)) : HostRaw(s)[i] \in HostToks \cup {Space}

\* the host in the letter case it was written in
HostnameAsWritten(s) == HostRaw(s)

\* u.hostname: the host parser lower-cases
Hostname(s) == LowerCase(HostRaw(s))

\* the path serializer percent-encodes a space
RECURSIVE EncodePath(_)
EncodePath(s) ==
  IF s = <<>> THEN <<>>
  ELSE IF Head(s) = Space THEN <<"%", "20">> \o EncodePath(Tail(s))
  ELSE <<Head(s)>> \o EncodePath(Tail(s))

\* u.pathname: from the first "/" after the host to the query or fragment,
\* "/" when the URL has no path
PathFrom(rest, from) ==
  IF from <= Len(rest) /\ rest[from] = "/"
  THEN EncodePath(SubSeq(rest, from, FirstIn(rest, {"?", "#"}, from) - 1))
  ELSE <<"/">>

Pathname(s) == PathFrom(AfterScheme(s), HostEnd(s))

\* the character an escape sequence stands for
Unescape(pair) ==
  CASE pair = "41" -> "A"
    [] pair = "25" -> "%"
    [] pair = "20" -> Space

\* decodeURI(s) does not throw URIError: every "%" starts an escape sequence
RECURSIVE DecodeOk(_)
DecodeOk(s) ==
  IF s = <<>> THEN TRUE
  ELSE IF Head(s) = "%"
       THEN Len(s) >= 2 /\ s[2] \in HexPairs /\ DecodeOk(SubSeq(s, 3, Len(s)))
       ELSE DecodeOk(Tail(s))

RECURSIVE DecodeURI(_)
DecodeURI(s) ==
  IF s = <<>> THEN <<>>
  ELSE IF Head(s) = "%"
       THEN <<Unescape(s[2])>> \o DecodeURI(SubSeq(s, 3, Len(s)))
       ELSE <<Head(s)>> \o DecodeURI(Tail(s))

StartsWithWww(h) == h # <<>> /\ Head(h) = "www."

\* if (host.startsWith("www.")) host = host.slice(4)
StripWww(h) == IF StartsWithWww(h) THEN Tail(h) ELSE h

\* try { path = decodeURI(path); } catch (_) {}
DecodeOrKeep(p) == IF DecodeOk(p) THEN DecodeURI(p) ELSE p

\* if (path.length > 1 && path.endsWith("/")) path = path.slice(0, -1)
StripTrailingSlash(p) ==
  IF StrLength(p) > 1 /\ p[Len(p)] = "/" THEN SubSeq(p, 1, Len(p) - 1) ELSE p

\* normalizeUrlForMatch from `if (!s) return ""` on, s the trimmed input
NormalizeTrimmed(s) ==
  IF s = <<>> THEN <<>>
  ELSE IF UrlParses(s)
  THEN <<"https:", "/", "/">> \o StripWww(Hostname(s))
         \o StripTrailingSlash(DecodeOrKeep(Pathname(s)))
  ELSE StripSlash(SplitFirst(SplitFirst(s, "?"), "#"))

\* normalizeUrlForMatch(input), input a string or null/undefined
normalizeUrlForMatch(input) ==
  IF ~Truthy(input) THEN <<>> ELSE NormalizeTrimmed(Trim(input.s))

\* rowUrl(r)
rowUrl(r) ==
  IF Truthy(Get(r, "Url")) THEN Get(r, "Url")
  ELSE IF Truthy(Get(r, "URL")) THEN Get(r, "URL")
  ELSE IF Truthy(Get(r, "url")) THEN Get(r, "url")
  ELSE Str(<<>>)

-----------------------------------------------------------------------------
(* Numbers: (hi, lo) is the double hi * 2^53 + lo, |lo| far below 2^53.     *)

\* the largest power of two that is at most k, k >= 1
RECURSIVE Pow2Floor(_)
Pow2Floor(k) == IF k < 2 THEN 1 ELSE 2 * Pow2Floor(k \div 2)

\* r / u rounded to the nearest integer, a tie to the even one
RoundTiesEven(r, u) ==
  LET q == r \div u
      m == r % u
  IN  IF 2 * m < u THEN q
      ELSE IF 2 * m > u THEN q + 1
      ELSE IF q % 2 = 0 THEN q ELSE q + 1

\* the gap between neighbouring doubles around k * 2^53 + r, k >= 1
Ulp(k, r) ==
  IF r < 0 /\ Pow2Floor(k) = k THEN Pow2Floor(k) ELSE 2 * Pow2Floor(k)

\* the double nearest to the real number k * 2^53 + r
RoundToDouble(k, r) ==
  IF k = 0 THEN Big(0, r)
  ELSE IF k > 0 THEN Big(k, Ulp(k, r) * RoundTiesEven(r, Ulp(k, r)))
  ELSE Big(k, -(Ulp(-k, -r) * RoundTiesEven(-r, Ulp(-k, -r))))

\* a + b of two numbers
NumAdd(a, b) == RoundToDouble(a.hi + b.hi, a.lo + b.lo)

\* a > 0
NumPos(a) == a.hi > 0 \/ (a.hi = 0 /\ a.lo > 0)

\* Math.round(a / b) for b > 0, both below 2^53: floor(a / b + 1/2)
MathRoundDiv(a, b) ==
  CASE a.hi = 0 /\ b.hi = 0 /\ b.lo > 0 -> Num((2 * a.lo + b.lo) \div (2 * b.lo))

DigitToks == {"0", "1", "2", "3", "4", "5", "6", "7", "8", "9"} \cup HexPairs

DigitVal(c) ==
  CASE c = "0" -> 0 [] c = "1" -> 1 [] c = "2" -> 2 [] c = "3" -> 3
    [] c = "4" -> 4 [] c = "5" -> 5 [] c = "6" -> 6 [] c = "7" -> 7
    [] c = "8" -> 8 [] c = "9" -> 9
    [] c = "41" -> 41 [] c = "25" -> 25 [] c = "20" -> 20

IsDigits(s) == s # <<>> /\ \A i \in 1..Len(s) : s[i] \in DigitToks

RECURSIVE DigitsVal(_)
DigitsVal(s) ==
  IF s = <<>> THEN 0
  ELSE LET c == s[Len(s)]
       IN  DigitsVal(SubSeq(s, 1, Len(s) - 1)) * (IF TokLen(c) = 2 THEN 100 ELSE 10)
             + DigitVal(c)

\* Number(s) of a string: surrounding white space dropped, "" is 0, a decimal
\* integer is its value, anything else is NaN
TrimmedToNumber(w) ==
  IF w = <<>> THEN Num(0)
  ELSE IF IsDigits(w) THEN Num(DigitsVal(w))
  ELSE IF Head(w) = "-" /\ IsDigits(Tail(w)) THEN Num(0 - DigitsVal(Tail(w)))
  ELSE NaNV

StringToNumber(s) == TrimmedToNumber(Trim(s))

\* Number(v)
ToNumber(v) ==
  CASE v.t = "null" -> Num(0)
    [] v.t = "nan"  -> NaNV
    [] v.t = "num"  -> v
    [] v.t = "str"  -> StringToNumber(v.s)
    [] v.t = "bool" -> IF v.b THEN Num(1) ELSE Num(0)

\* Number.isFinite(n) ? n : 0
FiniteOrZero(n) == IF n.t = "num" THEN n ELSE Num(0)

\* num(v) (v undefined and v null are both Null)
num(v) ==
  IF v.t = "null" THEN Num(0)
  ELSE IF v.t \in {"num", "nan"} THEN FiniteOrZero(v)
  ELSE FiniteOrZero(ToNumber(v))

\* asNumber(v): as num, but only a string goes through Number(v)
asNumber(v) ==
  IF v.t = "null" THEN Num(0)
  ELSE IF v.t \in {"num", "nan"} THEN FiniteOrZero(v)
  ELSE IF v.t = "str" THEN FiniteOrZero(ToNumber(v))
  ELSE Num(0)

\* Object.prototype.hasOwnProperty.call(obj, k)
HasOwn(obj, k) == k \in DOMAIN obj

\* the second loop of pickNumber, from candidate i on: the first one present
RECURSIVE FirstPresent(_, _, _)
FirstPresent(obj, keys, i) ==
  IF i > Len(keys) THEN Num(0)
  ELSE IF HasOwn(obj, keys[i]) THEN asNumber(obj[keys[i]])
  ELSE FirstPresent(obj, keys, i + 1)

\* the first loop of pickNumber, from candidate i on: the first one present
\* with a value that is not 0, and the second loop when there is none
RECURSIVE FirstNonZero(_, _, _)
FirstNonZero(obj, keys, i) ==
  IF i > Len(keys) THEN FirstPresent(obj, keys, 1)
  ELSE IF HasOwn(obj, keys[i]) /\ asNumber(obj[keys[i]]) # Num(0)
       THEN asNumber(obj[keys[i]])
  ELSE FirstNonZero(obj, keys, i + 1)

\* the first loop left out
pickNumberFirstPresent(obj, keys) == FirstPresent(obj, keys, 1)

\* pickNumber(obj, keys)
pickNumber(obj, keys) == FirstNonZero(obj, keys, 1)

-----------------------------------------------------------------------------
(* Row classifiers *)

\* v.includes(w), w one token
Includes(v, w) == \E i \in 1..Len(v) : v[i] = w

\* String(x || "")
StringOrEmpty(x) == IF Truthy(x) THEN x.s ELSE <<>>

isPaidSearchChannel(channelValue) ==
  LET v == Trim(LowerCase(StringOrEmpty(channelValue))) IN
  IF v = <<>> THEN FALSE
  ELSE IF v = <<"paid", Space, "search">> THEN TRUE
  ELSE IF Includes(v, "paid") /\ Includes(v, "search") THEN TRUE
  ELSE IF Includes(v, "cpc") \/ Includes(v, "ppc") THEN TRUE
  ELSE FALSE

isGoogleCpc(sourceValue, mediumValue) ==
  LET s == Trim(LowerCase(StringOrEmpty(sourceValue)))
      m == Trim(LowerCase(StringOrEmpty(mediumValue)))
      sourceOk == (s = <<"google">> \/ Includes(s, "google"))
      mediumOk == (m = <<"cpc">> \/ m = <<"ppc">> \/ Includes(m, "cpc") \/ Includes(m, "ppc"))
  IN  sourceOk /\ mediumOk

\* filterFn && !filterFn(r) is false: the row is kept
FilterKeeps(f, r) ==
  CASE f = "none"         -> TRUE
    [] f = "channel"      -> isPaidSearchChannel(Get(r, "Channel"))
    [] f = "sourceMedium" -> isGoogleCpc(Get(r, "Source"), Get(r, "Medium"))

-----------------------------------------------------------------------------
(* aggregateAllMetricsFromExport *)

GroupNames == {"RageClickCount", "DeadClickCount", "ExcessiveScroll",
               "QuickbackClick", "ScriptErrorCount", "ErrorClickCount"}

initGroup ==
  [sessionsCount |-> Num(0), sessionsWithMetricPercentage |-> Num(0),
   sessionsWithoutMetricPercentage |-> Num(0), pagesViews |-> Num(0),
   subTotal |-> Num(0)]

addGroup(target, r) ==
  [sessionsCount |-> NumAdd(target.sessionsCount, num(Get(r, "sessionsCount"))),
   sessionsWithMetricPercentage |->
     NumAdd(target.sessionsWithMetricPercentage, num(Get(r, "sessionsWithMetricPercentage"))),
   sessionsWithoutMetricPercentage |->
     NumAdd(target.sessionsWithoutMetricPercentage, num(Get(r, "sessionsWithoutMetricPercentage"))),
   pagesViews |-> NumAdd(target.pagesViews, num(Get(r, "pagesViews"))),
   subTotal |-> NumAdd(target.subTotal, num(Get(r, "subTotal")))]

\* the record of createBaseOutput, with the four running locals of the
\* aggregator (scrollDepthSum, scrollDepthN, pagesPerSessionPctSum,
\* pagesPerSessionPctN) carried beside it
createBaseOutput(target) ==
  [targetUrl |-> target,
   normalizedTarget |-> normalizeUrlForMatch(target),
   matchedRows |-> 0,
   totalSessionCount |-> Num(0), totalBotSessionCount |-> Num(0),
   distinctUserCount |-> Num(0), pagesPerSessionPercentage |-> Num(0),
   totalTime |-> Num(0), activeTime |-> Num(0),
   averageScrollDepth |-> Num(0),
   groups |-> [g \in GroupNames |-> initGroup],
   avgSessionDurationSec |-> Num(0), activeTimePerSessionSec |-> Num(0)]

InitLocals ==
  [scrollDepthSum |-> Num(0), scrollDepthN |-> 0,
   pagesPerSessionPctSum |-> Num(0), pagesPerSessionPctN |-> 0]

\* !rn || rn !== normalizedTarget is false
UrlMatches(rn, normalizedTarget) == rn # <<>> /\ rn = normalizedTarget

\* without the test for an empty row URL
RowCountsEmptyToo(r, normalizedTarget, f) ==
  LET rn == normalizeUrlForMatch(rowUrl(r)) IN
  /\ FilterKeeps(f, r)
  /\ rn = normalizedTarget

\* the row passes `if (filterFn && !filterFn(r)) continue` and
\* `if (!rn || rn !== normalizedTarget) continue`
RowCounts(r, normalizedTarget, f) ==
  /\ FilterKeeps(f, r)
  /\ UrlMatches(normalizeUrlForMatch(rowUrl(r)), normalizedTarget)

\* if (metricName === "Traffic") { ... }
AddTraffic(a, r) ==
  LET p == num(Get(r, "pagesPerSessionPercentage")) IN
  [o |-> [a.o EXCEPT
            !.totalSessionCount = NumAdd(@, num(Get(r, "totalSessionCount"))),
            !.totalBotSessionCount = NumAdd(@, num(Get(r, "totalBotSessionCount"))),
            !.distinctUserCount = NumAdd(@, num(Get(r, "distinctUserCount")))],
   l |-> IF Truthy(p)
         THEN [a.l EXCEPT !.pagesPerSessionPctSum = NumAdd(@, p),
                          !.pagesPerSessionPctN = @ + 1]
         ELSE a.l]

\* totalTime = and activeTime = in place of +=
AddEngagementTimeAssigns(a, r) ==
  [o |-> [a.o EXCEPT !.totalTime = num(Get(r, "totalTime")),
                     !.activeTime = num(Get(r, "activeTime"))],
   l |-> a.l]

\* if (metricName === "EngagementTime") { ... }
AddEngagementTime(a, r) ==
  [o |-> [a.o EXCEPT !.totalTime = NumAdd(@, num(Get(r, "totalTime"))),
                     !.activeTime = NumAdd(@, num(Get(r, "activeTime")))],
   l |-> a.l]

\* scrollDepthSum = d in place of scrollDepthSum += d
AddScrollDepthAssigns(a, r) ==
  LET d == num(Get(r, "averageScrollDepth")) IN
  [o |-> a.o,
   l |-> IF Truthy(d)
         THEN [a.l EXCEPT !.scrollDepthSum = d, !.scrollDepthN = @ + 1]
         ELSE a.l]

\* if (metricName === "ScrollDepth") { ... }
AddScrollDepth(a, r) ==
  LET d == num(Get(r, "averageScrollDepth")) IN
  [o |-> a.o,
   l |-> IF Truthy(d)
         THEN [a.l EXCEPT !.scrollDepthSum = NumAdd(@, d), !.scrollDepthN = @ + 1]
         ELSE a.l]

\* the body of the row loop for one row that counts
AddRow(a, metricName, r) ==
  LET c == [o |-> [a.o EXCEPT !.matchedRows = @ + 1], l |-> a.l] IN
  CASE metricName = "Traffic"        -> AddTraffic(c, r)
    [] metricName = "EngagementTime" -> AddEngagementTime(c, r)
    [] metricName = "ScrollDepth"    -> AddScrollDepth(c, r)
    [] metricName \in GroupNames     ->
         [o |-> [c.o EXCEPT !.groups[metricName] = addGroup(@, r)], l |-> c.l]
    [] OTHER -> c

\* for (const r of rows) { ... }, from row i on
RECURSIVE FoldRows(_, _, _, _, _)
FoldRows(a, block, i, normalizedTarget, f) ==
  IF i > Len(block.information) THEN a
  ELSE LET r == block.information[i] IN
       FoldRows(IF RowCounts(r, normalizedTarget, f)
                THEN AddRow(a, block.metricName, r) ELSE a,
                block, i + 1, normalizedTarget, f)

\* for (const block of exportJson) { ... }, from block j on
RECURSIVE FoldBlocks(_, _, _, _, _)
FoldBlocks(a, blocks, j, normalizedTarget, f) ==
  IF j > Len(blocks) THEN a
  ELSE FoldBlocks(FoldRows(a, blocks[j], 1, normalizedTarget, f),
                  blocks, j + 1, normalizedTarget, f)

\* the four statements after the loops
Finish(a) ==
  LET o1 == IF a.l.scrollDepthN > 0
            THEN [a.o EXCEPT !.averageScrollDepth =
                    MathRoundDiv(a.l.scrollDepthSum, Num(a.l.scrollDepthN))]
            ELSE a.o
      o2 == IF a.l.pagesPerSessionPctN > 0
            THEN [o1 EXCEPT !.pagesPerSessionPercentage =
                    MathRoundDiv(a.l.pagesPerSessionPctSum, Num(a.l.pagesPerSessionPctN))]
            ELSE o1
      o3 == IF NumPos(o2.totalSessionCount) /\ NumPos(o2.totalTime)
            THEN [o2 EXCEPT !.avgSessionDurationSec =
                    MathRoundDiv(o2.totalTime, o2.totalSessionCount)]
            ELSE o2
  IN  IF NumPos(o3.totalSessionCount) /\ NumPos(o3.activeTime)
      THEN [o3 EXCEPT !.activeTimePerSessionSec =
              MathRoundDiv(o3.activeTime, o3.totalSessionCount)]
      ELSE o3

aggregateAllMetricsFromExport(json, target, f) ==
  LET base == createBaseOutput(target) IN
  Finish(FoldBlocks([o |-> base, l |-> InitLocals], json, 1,
                    base.normalizedTarget, f))

-----------------------------------------------------------------------------
(* Inputs of the aggregation: target URLs, rows and block names *)

UrlA == <<"https:", "/", "/", "ex", "/", "a">>                      \* https://ex/a
UrlSlash == <<"/">>                                                  \* "/"
UrlLong == <<"https:", "/", "/", "ex", "/", LongSeg>>               \* 2011 characters

\* matches UrlA; paid search; distinctUserCount is 2^53
RowBig ==
  [Url |-> Str(<<"https:", "/", "/", "www.", "EX", "/", "a", "/", "?", "a">>),
   Channel |-> Str(<<"Paid", Space, "Search">>),
   Source |-> Str(<<"Google">>), Medium |-> Str(<<"CPC">>),
   totalSessionCount |-> Str(<<"1", "0">>), totalBotSessionCount |-> Num(1),
   distinctUserCount |-> Big(1, 0), pagesPerSessionPercentage |-> Num(3),
   totalTime |-> Num(100), activeTime |-> Num(25), averageScrollDepth |-> Num(40),
   sessionsCount |-> Str(<<"41">>), sessionsWithMetricPercentage |-> Num(5),
   sessionsWithoutMetricPercentage |-> Num(95), pagesViews |-> Num(7),
   subTotal |-> Big(1, 0)]

\* matches UrlA; organic, from bing; zero, negative and unparseable values
RowOrganic ==
  [URL |-> Str(<<"http:", "/", "/", "ex", "/", "a">>),
   Channel |-> Str(<<"Organic">>),
   Source |-> Str(<<"bing">>), Medium |-> Str(<<"cpc">>),
   totalSessionCount |-> Num(1), totalBotSessionCount |-> Null,
   distinctUserCount |-> Num(1), pagesPerSessionPercentage |-> Num(0),
   totalTime |-> Str(<<"a">>), activeTime |-> NaNV, averageScrollDepth |-> Num(-3),
   sessionsCount |-> Num(1), sessionsWithMetricPercentage |-> Bool(TRUE),
   sessionsWithoutMetricPercentage |-> Num(0), pagesViews |-> Str(<<>>),
   subTotal |-> Num(1)]

\* matches UrlA; paid search, google cpc; small values
RowPaid ==
  [url |-> Str(<<Space, "https:", "/", "/", "ex", "/", "a", "#", "a">>),
   Channel |-> Str(<<"cpc">>),
   Source |-> Str(<<"google">>), Medium |-> Str(<<"ppc">>),
   totalSessionCount |-> Num(4), totalBotSessionCount |-> Num(2),
   distinctUserCount |-> Num(1), pagesPerSessionPercentage |-> Num(2),
   totalTime |-> Num(201), activeTime |-> Num(50), averageScrollDepth |-> Num(45),
   sessionsCount |-> Num(3), sessionsWithMetricPercentage |-> Num(10),
   sessionsWithoutMetricPercentage |-> Num(90), pagesViews |-> Num(1),
   subTotal |-> Num(1)]

\* no usable URL: Url is empty and URL normalizes to the empty string
RowNoUrl ==
  [Url |-> Str(<<>>), URL |-> Str(<<"/">>),
   Channel |-> Str(<<"Paid", Space, "Search">>),
   Source |-> Str(<<"google">>), Medium |-> Str(<<"cpc">>),
   totalSessionCount |-> Num(5), distinctUserCount |-> Num(5),
   pagesPerSessionPercentage |-> Num(5), totalTime |-> Num(50),
   activeTime |-> Num(5), averageScrollDepth |-> Num(50),
   sessionsCount |-> Num(5), subTotal |-> Num(5)]

RowSamples == {RowBig, RowOrganic, RowPaid, RowNoUrl}

BlockNames == {"Traffic", "EngagementTime", "ScrollDepth", "RageClickCount", "PopularPages"}

\* the (target, filterFn) pairs the aggregator is called with
AggCalls ==
  {<<UrlA, "none">>, <<UrlA, "channel">>, <<UrlA, "sourceMedium">>, <<UrlSlash, "none">>}

RECURSIVE RowTotal(_)
RowTotal(json) ==
  IF json = <<>> THEN 0 ELSE Len(Head(json).information) + RowTotal(Tail(json))

-----------------------------------------------------------------------------
(* The aggregation as a state machine: an export is put together block by   *)
(* block and row by row, the aggregator is applied to it, and then two      *)
(* neighbouring rows or blocks change places and it is applied again (every *)
(* permutation is a chain of such exchanges, and every export is built).    *)

NoOut == [matchedRows |-> -1]

AggIdle ==
  /\ exportJson = <<>>
  /\ targetFinalUrl = <<>>
  /\ filterName = "none"
  /\ out = NoOut
  /\ phase = "build"

AppendBlock(name) ==
  /\ phase = "build"
  /\ Len(exportJson) < MaxBlocks
  /\ exportJson' = Append(exportJson, [metricName |-> name, information |-> <<>>])
  /\ UNCHANGED <<targetFinalUrl, filterName, out, phase>>

AppendRow(r) ==
  /\ phase = "build"
  /\ exportJson # <<>>
  /\ RowTotal(exportJson) < MaxRows
  /\ exportJson' = [exportJson EXCEPT ![Len(exportJson)].information = Append(@, r)]
  /\ UNCHANGED <<targetFinalUrl, filterName, out, phase>>

Aggregate(target, f) ==
  /\ phase = "build"
  /\ targetFinalUrl' = target
  /\ filterName' = f
  /\ out' = aggregateAllMetricsFromExport(exportJson, Str(target), f)
  /\ phase' = "done"
  /\ UNCHANGED exportJson

\* s with the elements at i and i + 1 exchanged
SwapAt(s, i) == [s EXCEPT ![i] = s[i + 1], ![i + 1] = s[i]]

\* two neighbouring rows of block j change places
PermuteRows(j, i) ==
  /\ phase = "done"
  /\ exportJson' = [exportJson EXCEPT ![j].information = SwapAt(@, i)]
  /\ exportJson' # exportJson
  /\ out' = aggregateAllMetricsFromExport(exportJson', Str(targetFinalUrl), filterName)
  /\ phase' = "permuted"
  /\ UNCHANGED <<targetFinalUrl, filterName>>

\* two neighbouring blocks change places
PermuteBlocks(j) ==
  /\ phase = "done"
  /\ exportJson' = SwapAt(exportJson, j)
  /\ exportJson' # exportJson
  /\ out' = aggregateAllMetricsFromExport(exportJson', Str(targetFinalUrl), filterName)
  /\ phase' = "permuted"
  /\ UNCHANGED <<targetFinalUrl, filterName>>

AggNext ==
  \/ \E name \in BlockNames : AppendBlock(name)
  \/ \E r \in RowSamples : AppendRow(r)
  \/ \E c \in AggCalls : Aggregate(c[1], c[2])
  \/ \E j \in 1..Len(exportJson) :
       \E i \in 1..(Len(exportJson[j].information) - 1) : PermuteRows(j, i)
  \/ \E j \in 1..(Len(exportJson) - 1) : PermuteBlocks(j)

-----------------------------------------------------------------------------
(* fetchClarityExport and the cache *)

TTL_MS == 23 * 60 * 60 * 1000

\* the clock moves in steps of half a TTL, so that an entry is reached just
\* before, exactly at and after its expiresAt
ClockStep == TTL_MS \div 2

EmptyMap == [k \in {} |-> Null]

\* cache.get(k), undefined (here Null) when there is no entry
CacheGet(c, k) == IF k \in DOMAIN c THEN c[k] ELSE Null

\* the payload of the entry is replaced and its expiresAt kept
CacheSetMerges(c, k, e) ==
  [x \in DOMAIN c \cup {k} |->
     IF x = k
     THEN IF k \in DOMAIN c THEN [e EXCEPT !.expiresAt = c[k].expiresAt] ELSE e
     ELSE c[x]]

\* cache.set(k, e)
CacheSet(c, k, e) == [x \in DOMAIN c \cup {k} |-> IF x = k THEN e ELSE c[x]]

\* the longest prefix of s made of digits
RECURSIVE DigitPrefix(_)
DigitPrefix(s) ==
  IF s # <<>> /\ Head(s) \in DigitToks THEN <<Head(s)>> \o DigitPrefix(Tail(s)) ELSE <<>>

\* parseInt(v, 10) of a string: white space, a sign, then digits; NaN without
\* a digit
ParseInt(v) ==
  LET w == TrimLeft(v.s)
      neg == w # <<>> /\ Head(w) = "-"
      d == DigitPrefix(IF neg THEN Tail(w) ELSE w)
  IN  IF d = <<>> THEN NaNV
      ELSE IF neg THEN Num(0 - DigitsVal(d)) ELSE Num(DigitsVal(d))

Min(a, b) == IF a < b THEN a ELSE b
Max(a, b) == IF a > b THEN a ELSE b

\* req.query.days || "3"
DaysOrDefault(q) == IF Truthy(q) THEN q ELSE Str(<<"3">>)

\* Math.min(Math.max(parseInt(days, 10) || 3, 1), 3)
safeDays(days) ==
  LET n == ParseInt(days)
      m == IF Truthy(n) THEN n.lo ELSE 3
  IN  Min(Max(m, 1), 3)

\* `FULL|${safeDays}|${d1}|${d2 || ""}|${d3 || ""}`
cacheKey(sd, dims) == <<"FULL", sd, dims[1], dims[2], dims[3]>>

\* the comparison of CacheHit turned round
CacheHitInverted(force, cached, now) ==
  ~force /\ cached # Null /\ cached.expiresAt < now

\* !force && cached && cached.expiresAt > now
CacheHit(force, cached, now) == ~force /\ cached # Null /\ cached.expiresAt > now

\* the entry expires TTL_MS after the fetch completed
NewEntryAtCompletion(now, payload) == [expiresAt |-> clock + TTL_MS, payload |-> payload]

\* what cache.set stores after a successful fetch begun at `now`
NewEntry(now, payload) == [expiresAt |-> now + TTL_MS, payload |-> payload]

\* fetchClarityExport up to its await: the key, the clock value read, the
\* entry found, whether the call returns at once (hit) and what it then
\* returns (ret); numOfDays and dims are the parameters of the upstream
\* request it issues otherwise
BeginCall(c, days, dims, force) ==
  LET sd == safeDays(days)
      cached == CacheGet(c, cacheKey(sd, dims))
      hit == CacheHit(force, cached, clock)
  IN  [key |-> cacheKey(sd, dims), now |-> clock, force |-> force,
       numOfDays |-> sd, dims |-> dims,
       cached |-> cached, hit |-> hit,
       ret |-> IF hit THEN cached.payload ELSE Null]

-----------------------------------------------------------------------------
(* Routes *)

Endpoints == {"metrics", "googleads", "refresh", "refresh-googleads", "schema"}

\* no route forces
ForceNever(ep) == FALSE

\* the force argument the route passes
Force(ep) ==
  CASE ep = "metrics" -> FALSE
    [] ep = "googleads" -> FALSE
    [] ep = "refresh" -> TRUE
    [] ep = "refresh-googleads" -> TRUE
    [] ep = "schema" -> TRUE

\* the d1, d2, d3 of the route's first and second call
Dims(ep, stage) ==
  IF ep \in {"googleads", "refresh-googleads"}
  THEN IF stage = 1 THEN <<"Channel", "URL", "">> ELSE <<"Source", "Medium", "URL">>
  ELSE <<"URL", "", "">>

\* String(req.query.url || "").trim()
TargetOf(q) == Trim(StringOrEmpty(q))

\* the route answers 400 before any call
Rejects(ep, q) == ep \in {"metrics", "googleads"} /\ TargetOf(q) = <<>>

BlockCount(json) == Len(json)

\* the schema of /debug/schema: per block its name and the keys of its first row
SchemaOf(json) ==
  [i \in 1..Len(json) |->
     [metricName |-> json[i].metricName,
      sampleKeys |-> IF json[i].information = <<>> THEN {}
                     ELSE DOMAIN json[i].information[1]]]

BadRequest == [status |-> 400, body |-> [error |-> "Missing query param: url"]]

\* an empty aggregate in place of the error
EmptyAggregate == [status |-> 200, body |-> createBaseOutput(Str(<<>>))]

\* the catch block of every route
UpstreamError == [status |-> 502, body |-> [error |-> "Upstream error"]]

\* the Channel aggregate is never the answer
ChannelAnswerNever(r1) == [status |-> 0]

\* /metrics-googleads answers with the Channel aggregate r1 when it has
\* sessions or matched rows, and goes on to the Source/Medium call otherwise
ChannelAnswer(r1) ==
  IF NumPos(r1.totalSessionCount) \/ r1.matchedRows > 0
  THEN [status |-> 200, body |-> [mode |-> "channel_url_paid_search", r |-> r1]]
  ELSE [status |-> 0]

\* what the route does with the export its first call returned: it answers,
\* or it goes on to a second call (status 0)
AfterFirst(ep, json, target) ==
  CASE ep = "metrics" ->
         [status |-> 200,
          body |-> aggregateAllMetricsFromExport(json, Str(target), "none")]
    [] ep = "googleads" ->
         ChannelAnswer(aggregateAllMetricsFromExport(json, Str(target), "channel"))
    [] ep = "refresh" ->
         [status |-> 200, body |-> [ok |-> TRUE, blocks |-> BlockCount(json)]]
    [] ep = "refresh-googleads" -> [status |-> 0]
    [] ep = "schema" ->
         [status |-> 200,
          body |-> [blockCount |-> BlockCount(json), schema |-> SchemaOf(json)]]

\* what the route answers once its second call returned
AfterSecond(ep, first, json, target) ==
  CASE ep = "googleads" ->
         [status |-> 200,
          body |-> [mode |-> "source_medium_url_google_cpc",
                    r |-> aggregateAllMetricsFromExport(json, Str(target), "sourceMedium")]]
    [] ep = "refresh-googleads" ->
         [status |-> 200,
          body |-> [ok |-> TRUE, blocks_channel_url |-> BlockCount(first),
                    blocks_source_medium_url |-> BlockCount(json)]]

-----------------------------------------------------------------------------
(* Inputs of the routes and of the upstream *)

\* the requests: the route, req.query.url (missing, blank, a page, a page with
\* a 2011-character URL) and req.query.days (missing, "0", "-1", "2", "5")
Requests ==
  {<<"metrics", Null, Null>>,
   <<"metrics", Str(<<Space>>), Null>>,
   <<"metrics", Str(UrlA), Null>>,
   <<"metrics", Str(UrlA), Str(<<"0">>)>>,
   <<"metrics", Str(UrlA), Str(<<"-", "1">>)>>,
   <<"metrics", Str(UrlLong), Null>>,
   <<"googleads", Null, Null>>,
   <<"googleads", Str(UrlA), Null>>,
   <<"googleads", Str(UrlLong), Str(<<"5">>)>>,
   <<"refresh", Null, Null>>,
   <<"refresh", Null, Str(<<"2">>)>>,
   <<"refresh-googleads", Null, Null>>,
   <<"schema", Null, Null>>}

\* bodies the upstream answers with
JsonPaid == <<[metricName |-> "Traffic", information |-> <<RowPaid>>]>>
JsonOrganic ==
  <<[metricName |-> "Traffic", information |-> <<RowOrganic>>],
    [metricName |-> "EngagementTime", information |-> <<>>]>>
JsonSamples == {JsonPaid, JsonOrganic}

\* how a fetch fails: a non-2xx status, a rejected fetch, a body that is not JSON
FailKinds == {"status", "network", "body"}

Slots == 1..MaxSlots

Idle == [pc |-> "idle"]

-----------------------------------------------------------------------------
(* The server as a state machine *)

\* the route answers and its request is over
Answer(s, ep, target, days, resp, c, calls, fin, ev) ==
  /\ cache' = c
  /\ inflight' = [inflight EXCEPT ![s] = Idle]
  /\ last' = [ev |-> ev, ep |-> ep, target |-> target, days |-> days,
              status |-> resp.status, body |-> resp.body,
              calls |-> calls, fin |-> fin]
  /\ UNCHANGED <<clock, nUpstream>>

\* the call joins a fetch already in flight for its key
SuspendCoalesced(s, ep, stage, target, days, call, first, c, calls, fin, ev) ==
  LET same == {x \in DOMAIN inflight :
                 inflight[x].pc = "await" /\ inflight[x].key = call.key}
      joins == same # {}
  IN
  /\ nUpstream < MaxUpstream
  /\ nUpstream' = IF joins THEN nUpstream ELSE nUpstream + 1
  /\ cache' = c
  /\ inflight' = [inflight EXCEPT ![s] =
                    [pc |-> "await", ep |-> ep, stage |-> stage, target |-> target,
                     days |-> days, key |-> call.key, now |-> call.now,
                     id |-> IF joins THEN inflight[CHOOSE x \in same : TRUE].id
                            ELSE nUpstream + 1,
                     first |-> first]]
  /\ last' = [ev |-> ev, ep |-> ep, target |-> target, days |-> days,
              status |-> 0, body |-> Null,
              calls |-> calls, fin |-> fin]
  /\ UNCHANGED clock

\* the call issues the upstream request and the route waits for it
Suspend(s, ep, stage, target, days, call, first, c, calls, fin, ev) ==
  /\ nUpstream < MaxUpstream
  /\ nUpstream' = nUpstream + 1
  /\ cache' = c
  /\ inflight' = [inflight EXCEPT ![s] =
                    [pc |-> "await", ep |-> ep, stage |-> stage, target |-> target,
                     days |-> days, key |-> call.key, now |-> call.now,
                     id |-> nUpstream + 1, first |-> first]]
  /\ last' = [ev |-> ev, ep |-> ep, target |-> target, days |-> days,
              status |-> 0, body |-> Null,
              calls |-> calls, fin |-> fin]
  /\ UNCHANGED clock

\* the route from the return of its first call on, the cache being c and
\* a what AfterFirst made of the export
Advance(s, ep, target, days, c, p1, a, calls, fin, ev) ==
  IF a.status # 0 THEN Answer(s, ep, target, days, a, c, calls, fin, ev)
  ELSE LET c2 == BeginCall(c, days, Dims(ep, 2), Force(ep)) IN
       IF c2.hit
       THEN Answer(s, ep, target, days,
                   AfterSecond(ep, p1.json, c2.ret.json, target),
                   c, Append(calls, c2), fin, ev)
       ELSE Suspend(s, ep, 2, target, days, c2, p1, c, Append(calls, c2), fin, ev)

\* a request arrives at route ep with query parameters url = q, days = dq
Request(s, ep, q, dq) ==
  /\ inflight[s].pc = "idle"
  /\ \A x \in Slots : x < s => inflight[x].pc # "idle"
  /\ LET target == TargetOf(q)
         days == DaysOrDefault(dq)
         c1 == BeginCall(cache, days, Dims(ep, 1), Force(ep))
     IN  IF Rejects(ep, q)
         THEN Answer(s, ep, target, days, BadRequest, cache, <<>>, Null, "request")
         ELSE IF c1.hit
         THEN Advance(s, ep, target, days, cache, c1.ret,
                      AfterFirst(ep, c1.ret.json, target), <<c1>>, Null, "request")
         ELSE Suspend(s, ep, 1, target, days, c1, Null, cache, <<c1>>, Null, "request")

\* the upstream answers 2xx with the JSON body json
FetchOk(s, json) ==
  /\ inflight[s].pc = "await"
  /\ LET f == inflight[s]
         payload == [id |-> f.id, json |-> json]
         c == CacheSet(cache, f.key, NewEntry(f.now, payload))
         fin == [key |-> f.key, now |-> f.now, id |-> f.id, ok |-> TRUE,
                 ret |-> payload, prev |-> CacheGet(cache, f.key)]
     IN  IF f.stage = 1
         THEN Advance(s, f.ep, f.target, f.days, c, payload,
                      AfterFirst(f.ep, json, f.target), <<>>, fin, "fetchOk")
         ELSE Answer(s, f.ep, f.target, f.days,
                     AfterSecond(f.ep, f.first.json, json, f.target),
                     c, <<>>, fin, "fetchOk")

\* the failed fetch takes the entry of its key with it
FetchFailClears(s, kind) ==
  /\ inflight[s].pc = "await"
  /\ LET f == inflight[s]
         fin == [key |-> f.key, now |-> f.now, id |-> f.id, ok |-> FALSE,
                 error |-> kind, prev |-> CacheGet(cache, f.key)]
         c == [x \in DOMAIN cache \ {f.key} |-> cache[x]]
     IN  Answer(s, f.ep, f.target, f.days, UpstreamError, c, <<>>, fin, "fetchFail")

\* the fetch fails: the call throws and the route answers 502
FetchFail(s, kind) ==
  /\ inflight[s].pc = "await"
  /\ LET f == inflight[s]
         fin == [key |-> f.key, now |-> f.now, id |-> f.id, ok |-> FALSE,
                 error |-> kind, prev |-> CacheGet(cache, f.key)]
     IN  Answer(s, f.ep, f.target, f.days, UpstreamError, cache, <<>>, fin, "fetchFail")

NoLast == [ev |-> "none", calls |-> <<>>, fin |-> Null, status |-> 0]

\* time passes
Tick ==
  /\ clock < MaxTicks * ClockStep
  /\ clock' = clock + ClockStep
  /\ last' = NoLast
  /\ UNCHANGED <<cache, inflight, nUpstream>>

-----------------------------------------------------------------------------
(* normalizeUrlForMatch as a state machine: a string is put together from   *)
(* pieces of URLs and the function is applied to it, and to what it returns *)

\* pieces of URLs: schemes, host labels, path segments, escape sequences
\* (%2541, %41, %20, a lone %), a query, a fragment, white space
UrlParts ==
  {<<"https:", "/", "/">>, <<"http:", "/", "/">>,
   <<"www.">>, <<"ex">>, <<"EX">>,
   <<"/">>, <<"/", "a">>, <<"/", "A">>,
   <<"%", "25", "41">>, <<"%", "41">>, <<"%", "20">>, <<"%">>,
   <<"?", "a">>, <<"#", "a">>, <<Space>>}

NoResult == [none |-> TRUE]

FnIdle ==
  /\ text = <<>>
  /\ parts = 0
  /\ applied = "none"
  /\ result = NoResult

AppendPart(p) ==
  /\ applied = "none"
  /\ parts < MaxParts
  /\ InUrlLang(text \o p)
  /\ text' = text \o p
  /\ parts' = parts + 1
  /\ UNCHANGED <<applied, result>>

\* normalizeUrlForMatch(k) and normalizeUrlForMatch of what it returned
Renormalize(k) == [key |-> k, again |-> normalizeUrlForMatch(Str(k))]

ApplyNormalize ==
  /\ applied = "none"
  /\ InUrlLang(normalizeUrlForMatch(Str(text)))
  /\ applied' = "normalize"
  /\ result' = Renormalize(normalizeUrlForMatch(Str(text)))
  /\ UNCHANGED <<text, parts>>

\* the ways a second URL is made from a first
VaryKinds == {"scheme", "www", "hostcase", "slash", "query", "pathcase"}

\* a letter token in the other case
SwapCaseTok(c) ==
  CASE c = "a" -> "A" [] c = "A" -> "a"
    [] c = "ex" -> "EX" [] c = "EX" -> "ex"
    [] OTHER -> c

SwapCase(s) == [i \in 1..Len(s) |-> SwapCaseTok(s[i])]

\* the scheme and the slashes after it
SchemePart(s) == SubSeq(s, 1, Len(s) - Len(AfterScheme(s)))

\* the path as written: from the end of the host to the query or fragment
PathPart(s) ==
  SubSeq(AfterScheme(s), HostEnd(s),
         FirstIn(AfterScheme(s), {"?", "#"}, HostEnd(s)) - 1)

\* the query and the fragment as written
QueryPart(s) ==
  SubSeq(AfterScheme(s), FirstIn(AfterScheme(s), {"?", "#"}, HostEnd(s)),
         Len(AfterScheme(s)))

\* the absolute URL s with one thing changed: the other scheme, a www. label
\* in front of the host, the host in the other letter case, a slash at the
\* end of the path, the query and fragment dropped, the path in the other
\* letter case
Variant(kind, s) ==
  CASE kind = "scheme" ->
         <<IF Head(s) = "https:" THEN "http:" ELSE "https:">> \o Tail(s)
    [] kind = "www" ->
         SchemePart(s) \o <<"www.">> \o AfterScheme(s)
    [] kind = "hostcase" ->
         SchemePart(s) \o SwapCase(HostRaw(s)) \o PathPart(s) \o QueryPart(s)
    [] kind = "slash" ->
         SchemePart(s) \o HostRaw(s) \o PathPart(s) \o <<"/">> \o QueryPart(s)
    [] kind = "query" ->
         SchemePart(s) \o HostRaw(s) \o PathPart(s)
    [] kind = "pathcase" ->
         SchemePart(s) \o HostRaw(s) \o SwapCase(PathPart(s)) \o QueryPart(s)

\* the keys of two URLs
BothKeys(s, o) ==
  [other |-> o,
   key |-> normalizeUrlForMatch(Str(s)),
   otherKey |-> normalizeUrlForMatch(Str(o))]

\* normalizeUrlForMatch is applied to the absolute URL text and to a variant
\* of it (for "slash", text has a path other than "/")
Vary(kind) ==
  /\ applied = "none"
  /\ UrlParses(text) /\ Trim(text) = text
  /\ kind = "slash" => PathPart(text) \notin {<<>>, <<"/">>}
  /\ Variant(kind, text) # text
  /\ UrlParses(Variant(kind, text)) /\ Trim(Variant(kind, text)) = Variant(kind, text)
  /\ applied' = kind
  /\ result' = BothKeys(text, Variant(kind, text))
  /\ UNCHANGED <<text, parts>>

UrlNext ==
  \/ \E p \in UrlParts : AppendPart(p)
  \/ ApplyNormalize
  \/ \E kind \in VaryKinds : Vary(kind)

-----------------------------------------------------------------------------
(* The coercions as a state machine: a string is put together character by  *)
(* character, and num and asNumber are applied to it or to another value    *)

\* characters of the strings: digits, a sign, white space, a letter
NumToks == {"1", "0", "-", Space, "a"}

AppendTok(c) ==
  /\ applied = "none"
  /\ parts < MaxToks
  /\ text' = Append(text, c)
  /\ parts' = parts + 1
  /\ UNCHANGED <<applied, result>>

\* the raw values: absent or null, NaN, numbers, booleans, the string
RawValues(s) ==
  {Null, NaNV, Num(0), Num(7), Num(-41), Big(1, 0), Bool(TRUE), Bool(FALSE), Str(s)}

Coerce(v) ==
  /\ applied = "none"
  /\ applied' = "coerce"
  /\ result' = [raw |-> v, num |-> num(v), asNumber |-> asNumber(v)]
  /\ UNCHANGED <<text, parts>>

\* the candidate names of the session count, in the order they are tried
SessionKeys == <<"totalSessionCount", "sessionCount", "sessions", "totalSessions">>

\* the values a candidate field holds
PickValues(s) == {Null, Num(0), Num(7), Str(s)}

\* rows holding some of the candidates (sessionCount is never there)
PickRows(s) ==
  UNION {[fs -> PickValues(s)] :
           fs \in SUBSET {"totalSessionCount", "sessions", "totalSessions"}}

Pick(row) ==
  /\ applied = "none"
  /\ applied' = "pick"
  /\ result' = [row |-> row, picked |-> pickNumber(row, SessionKeys)]
  /\ UNCHANGED <<text, parts>>

NumNext ==
  \/ \E c \in NumToks : AppendTok(c)
  \/ \E v \in RawValues(text) : Coerce(v)
  \/ \E row \in PickRows(text) : Pick(row)

CacheIdle ==
  /\ cache = EmptyMap
  /\ clock = 0
  /\ inflight = [s \in Slots |-> Idle]
  /\ nUpstream = 0
  /\ last = NoLast

Init == CacheIdle /\ AggIdle /\ FnIdle

Next ==
  \/ \E s \in Slots, r \in Requests :
       Request(s, r[1], r[2], r[3]) /\ UNCHANGED <<aggVars, fnVars>>
  \/ \E s \in Slots, json \in JsonSamples : FetchOk(s, json) /\ UNCHANGED <<aggVars, fnVars>>
  \/ \E s \in Slots, kind \in FailKinds : FetchFail(s, kind) /\ UNCHANGED <<aggVars, fnVars>>
  \/ Tick /\ UNCHANGED <<aggVars, fnVars>>

Spec == Init /\ [][Next]_vars

AggSpec == Init /\ [][AggNext /\ UNCHANGED <<cacheVars, fnVars>>]_vars

UrlSpec == Init /\ [][UrlNext /\ UNCHANGED <<cacheVars, aggVars>>]_vars

NumSpec == Init /\ [][NumNext /\ UNCHANGED <<cacheVars, aggVars>>]_vars

-----------------------------------------------------------------------------
(* Properties of the cache and the routes (under Spec)                      *)

\* the calls begun in the step that led to this state
CallsOf(l) == {l.calls[i] : i \in DOMAIN l.calls}

\* the call is unforced and the map m holds an entry of its key that has not
\* expired at the clock value now
FindsFresh(c, m, now) ==
  ~c.force /\ c.key \in DOMAIN m /\ m[c.key].expiresAt > now

\* C1: a call with force = false that finds an entry whose expiresAt is
\* strictly greater than the current time returns that entry's payload and
\* issues no upstream call, and a request all of whose calls are such calls
\* answers from the cached payload and leaves the cache unchanged.
C1_FreshEntryIsServed ==
  [][ /\ \A c \in CallsOf(last') :
           FindsFresh(c, cache', clock) => c.hit /\ c.ret = cache'[c.key].payload
      /\ ( /\ last'.ev = "request"
           /\ last'.calls # <<>>
           /\ \A c \in CallsOf(last') : FindsFresh(c, cache, clock) )
         => /\ cache' = cache
            /\ nUpstream' = nUpstream
            /\ inflight' = inflight
            /\ last'.status = 200
            /\ last'.ep = "metrics" =>
                 last'.body = aggregateAllMetricsFromExport(
                                cache[last'.calls[1].key].payload.json,
                                Str(last'.target), "none")
    ]_vars

C1_Witness ==
  /\ last.ev = "request"
  /\ last.ep = "metrics"
  /\ last.status = 200
  /\ last.calls # <<>>
  /\ FindsFresh(last.calls[1], cache, clock)
  /\ last.body.matchedRows > 0
  /\ nUpstream > 0

\* C2: when the fetch of a call fails, the route answers with an error and
\* the cache is what it was: no entry is added and the entry of the key, if
\* any, keeps its payload and its expiresAt, whether or not the call was
\* forced.
C2_FailedFetchKeepsCache ==
  [][ last'.ev = "fetchFail" =>
        /\ cache' = cache
        /\ last'.status = 502
        /\ CacheGet(cache', last'.fin.key) = last'.fin.prev
    ]_vars

C2_Witness ==
  /\ last.ev = "fetchFail"
  /\ last.fin.prev # Null
  /\ last.fin.prev.expiresAt > clock
  /\ cache[last.fin.key] = last.fin.prev

\* C3: a call with force = true issues an upstream call whether or not the
\* cache holds a fresh entry; when the fetch succeeds the entry of the key is
\* the new payload with expiresAt = now + TTL, now being the clock value the
\* call read; /refresh and /refresh-googleads call with force = true only.
C3_ForcedCallFetchesAndOverwrites ==
  [][ /\ \A c \in CallsOf(last') :
           c.force => ~c.hit /\ nUpstream' = nUpstream + 1
      /\ last'.ev = "fetchOk" =>
           /\ last'.fin.key \in DOMAIN cache'
           /\ cache'[last'.fin.key] =
                [expiresAt |-> last'.fin.now + TTL_MS, payload |-> last'.fin.ret]
           /\ \A k \in DOMAIN cache : cache[k].payload.id # last'.fin.ret.id
      /\ (last'.ev # "none" /\ last'.ep \in {"refresh", "refresh-googleads"}) =>
           \A c \in CallsOf(last') : c.force
    ]_vars

C3_Witness ==
  /\ last.ev = "fetchOk"
  /\ last.ep = "refresh"
  /\ last.fin.prev # Null
  /\ last.fin.prev.expiresAt > clock
  /\ cache[last.fin.key].payload = last.fin.ret
  /\ cache[last.fin.key].payload # last.fin.prev.payload

Awaiting(f, s) == f[s].pc = "await"

\* C4: calls that start while no fresh entry exists each issue an upstream
\* call of their own, also when another call for the same key is still in
\* flight, and each caller gets the payload of its own fetch.
C4_OverlappingMissesFetchSeparately ==
  [][ /\ \A c \in CallsOf(last') :
           ~FindsFresh(c, cache', clock) => ~c.hit /\ nUpstream' = nUpstream + 1
      /\ \A s1, s2 \in Slots :
           (s1 # s2 /\ Awaiting(inflight', s1) /\ Awaiting(inflight', s2))
             => inflight'[s1].id # inflight'[s2].id
      /\ Cardinality({s \in Slots : Awaiting(inflight', s)}) <= nUpstream'
      /\ last'.ev = "fetchOk" =>
           /\ \E s \in Slots :
                /\ Awaiting(inflight, s)
                /\ inflight'[s] # inflight[s]
                /\ last'.fin.ret.id = inflight[s].id
           /\ (last'.ep = "metrics" =>
                 last'.body = aggregateAllMetricsFromExport(
                                last'.fin.ret.json, Str(last'.target), "none"))
    ]_vars

C4_Witness ==
  \E s1, s2 \in Slots :
    /\ s1 # s2
    /\ Awaiting(inflight, s1) /\ Awaiting(inflight, s2)
    /\ inflight[s1].key = inflight[s2].key
    /\ inflight[s1].id # inflight[s2].id
    /\ nUpstream = 2

\* C5: /debug/schema answers from a fresh entry of the URL-only key without
\* an upstream call.
C5_SchemaRespectsCache ==
  (last.ev = "request" /\ last.ep = "schema" /\ last.calls # <<>>
     /\ last.calls[1].cached # Null
     /\ last.calls[1].cached.expiresAt > last.calls[1].now)
  => (last.calls[1].hit /\ last.status = 200)

MaxUrlLen == 2000

\* C6: /metrics and /metrics-googleads reject a target URL that is missing,
\* empty after trimming or longer than MaxUrlLen before any upstream call.
C6_MalformedUrlRejected ==
  (last.ev = "request" /\ last.ep \in {"metrics", "googleads"}
     /\ (last.target = <<>> \/ StrLength(last.target) > MaxUrlLen))
  => (last.status = 400 /\ last.calls = <<>>)

\* the requested day count clamped into [1, 3]
ClampDays(n) == IF n < 1 THEN 1 ELSE IF n > 3 THEN 3 ELSE n

\* C7: the day count of the cache key and of the upstream request is the
\* requested integer clamped into [1, 3].
C7_DaysClamped ==
  \A c \in CallsOf(last) :
    ParseInt(last.days).t = "num" =>
      /\ c.numOfDays = ClampDays(ParseInt(last.days).lo)
      /\ c.key[2] = ClampDays(ParseInt(last.days).lo)

\* C8: a call issues one upstream call when it does not return at once and
\* none when it does; when the fetch fails the route answers 502 "Upstream
\* error", nothing is fetched again and no aggregate is returned.
C8_OneCallNoRetry ==
  [][ /\ nUpstream' - nUpstream = Cardinality({i \in DOMAIN last'.calls : ~last'.calls[i].hit})
      /\ nUpstream' - nUpstream <= 1
      /\ last'.ev = "fetchFail" =>
           /\ last'.status = 502
           /\ last'.body = [error |-> "Upstream error"]
           /\ last'.calls = <<>>
           /\ nUpstream' = nUpstream
           /\ \E s \in Slots : Awaiting(inflight, s) /\ inflight'[s] = Idle
    ]_vars

C8_Witness ==
  /\ last.ev = "fetchFail"
  /\ last.ep = "metrics"
  /\ last.status = 502
  /\ last.fin.prev = Null
  /\ cache = EmptyMap

-----------------------------------------------------------------------------
(* Properties of the aggregation (under AggSpec)                            *)

RowPositions(json) ==
  UNION {{<<j, i>> : i \in 1..Len(json[j].information)} : j \in 1..Len(json)}

\* the rows, over all blocks, whose normalized URL is not empty and equals
\* the normalized target and which the filter keeps
CountedRows(json, target, f) ==
  {p \in RowPositions(json) :
     LET r == json[p[1]].information[p[2]]
         rn == normalizeUrlForMatch(rowUrl(r))
     IN  rn # <<>> /\ rn = normalizeUrlForMatch(Str(target)) /\ FilterKeeps(f, r)}

\* C9: matchedRows is the number of rows, over all blocks whatever their
\* name, whose normalized URL is not empty and equals the normalized target
\* and which satisfy the predicate; no row counts when the target
\* normalizes to the empty string.
C9_MatchedRowsCounts ==
  phase \in {"done", "permuted"} =>
    /\ out.matchedRows = Cardinality(CountedRows(exportJson, targetFinalUrl, filterName))
    /\ normalizeUrlForMatch(Str(targetFinalUrl)) = <<>> => out.matchedRows = 0

C9_Witness ==
  /\ phase = "done"
  /\ filterName = "channel"
  /\ out.matchedRows = 2
  /\ RowTotal(exportJson) = 3
  /\ \E j \in 1..Len(exportJson) :
       /\ exportJson[j].metricName = "PopularPages"
       /\ exportJson[j].information = <<RowPaid, RowOrganic>>

\* every value a row holds coerces to a number below 2^53 in magnitude
SmallValues(json) ==
  \A p \in RowPositions(json) :
    LET r == json[p[1]].information[p[2]]
    IN  \A f \in DOMAIN r : num(r[f]).hi = 0

\* C10 as stated: exchanging rows of a block or blocks of the export leaves
\* every field of the aggregated record as it was.
C10_OrderIndependent ==
  [][phase' = "permuted" => out' = out]_vars

\* C10: for exports whose values coerce to integers whose sums stay below
\* 2^53, exchanging rows of a block or blocks of the export leaves every
\* field of the aggregated record as it was.
C10_OrderIndependentExactSums ==
  [][(phase' = "permuted" /\ SmallValues(exportJson)) => out' = out]_vars

C10_Witness ==
  /\ phase = "permuted"
  /\ filterName = "none"
  /\ SmallValues(exportJson)
  /\ out.matchedRows = 3
  /\ \E j \in 1..Len(exportJson) :
       /\ exportJson[j].metricName = "ScrollDepth"
       /\ exportJson[j].information = <<RowPaid, RowOrganic>>

\* the counted rows of the blocks called name whose coerced value of field
\* is strictly positive
PositiveRows(json, target, f, name, field) ==
  {p \in CountedRows(json, target, f) :
     /\ json[p[1]].metricName = name
     /\ NumPos(num(Get(json[p[1]].information[p[2]], field)))}

\* the sum of the coerced values of field over the rows at the positions ps
\* (values below 2^53)
RECURSIVE SumOver(_, _, _)
SumOver(json, ps, field) ==
  IF ps = {} THEN 0
  ELSE LET p == CHOOSE q \in ps : TRUE
       IN  num(Get(json[p[1]].information[p[2]], field)).lo
             + SumOver(json, ps \ {p}, field)

\* round(sum / count) over the rows at ps, 0 when there is none
AverageOver(json, ps, field) ==
  IF ps = {} THEN Num(0)
  ELSE Num((2 * SumOver(json, ps, field) + Cardinality(ps)) \div (2 * Cardinality(ps)))

\* C11: averageScrollDepth and pagesPerSessionPercentage are the rounded
\* averages over the matching rows whose coerced value is strictly positive,
\* the divisor being the number of those rows; a row whose value is zero,
\* absent or negative adds nothing to the sum or to the divisor.
C11_AveragesFromPositiveRows ==
  phase \in {"done", "permuted"} =>
    /\ out.averageScrollDepth =
         AverageOver(exportJson,
                     PositiveRows(exportJson, targetFinalUrl, filterName,
                                  "ScrollDepth", "averageScrollDepth"),
                     "averageScrollDepth")
    /\ out.pagesPerSessionPercentage =
         AverageOver(exportJson,
                     PositiveRows(exportJson, targetFinalUrl, filterName,
                                  "Traffic", "pagesPerSessionPercentage"),
                     "pagesPerSessionPercentage")

\* the counted rows of the blocks called name
NamedRows(json, target, f, name) ==
  {p \in CountedRows(json, target, f) : json[p[1]].metricName = name}

\* round(t / n) when t and n are both positive, 0 otherwise
RoundedRatio(t, n) ==
  IF t > 0 /\ n > 0 THEN Num((2 * t + n) \div (2 * n)) ELSE Num(0)

\* the total of field over the counted rows of the blocks called name
TotalOf(json, target, f, name, field) ==
  SumOver(json, NamedRows(json, target, f, name), field)

\* C12: avgSessionDurationSec is round(totalTime / totalSessionCount) when
\* both totals are positive and 0 otherwise, activeTimePerSessionSec is
\* round(activeTime / totalSessionCount) when both totals are positive and 0
\* otherwise, the totals being those over all matching Traffic and
\* EngagementTime rows in whatever order the blocks come.
C12_DerivedAverages ==
  phase \in {"done", "permuted"} =>
    /\ out.avgSessionDurationSec =
         RoundedRatio(
           TotalOf(exportJson, targetFinalUrl, filterName, "EngagementTime", "totalTime"),
           TotalOf(exportJson, targetFinalUrl, filterName, "Traffic", "totalSessionCount"))
    /\ out.activeTimePerSessionSec =
         RoundedRatio(
           TotalOf(exportJson, targetFinalUrl, filterName, "EngagementTime", "activeTime"),
           TotalOf(exportJson, targetFinalUrl, filterName, "Traffic", "totalSessionCount"))

C12_Witness ==
  /\ phase = "permuted"
  /\ Len(exportJson) = 2
  /\ exportJson[1].metricName = "EngagementTime"
  /\ Len(exportJson[1].information) = 2
  /\ exportJson[2].metricName = "Traffic"
  /\ out.avgSessionDurationSec = Num(30)
  /\ out.activeTimePerSessionSec = Num(8)

-----------------------------------------------------------------------------
(* Properties of normalizeUrlForMatch (under UrlSpec)                       *)

\* C13: normalizing what normalizeUrlForMatch returned gives it back, for
\* absolute URLs and for the other strings, paths with percent-encoded
\* characters and several trailing slashes included.
C13_NormalizeIdempotent ==
  applied = "normalize" => result.again = result.key

-----------------------------------------------------------------------------
(* Properties of the coercions (under NumSpec)                              *)

\* what the contract of coerce gives for a raw value: 0 for null or absent,
\* a finite number itself, 0 for NaN, the parsed value of a string or 0 when
\* it does not parse, 0 for a value of another type
Coerced(v) ==
  CASE v.t = "null" -> Num(0)
    [] v.t = "num"  -> v
    [] v.t = "nan"  -> Num(0)
    [] v.t = "str"  -> IF StringToNumber(v.s).t = "num" THEN StringToNumber(v.s) ELSE Num(0)
    [] OTHER        -> Num(0)

\* C15: num and asNumber return a finite number for every raw value: 0 for
\* null or absent, a finite number itself, 0 for NaN, the parsed value of a
\* string or 0 when it does not parse, and 0 for a value of any other type.
C15_CoerceTotal ==
  applied = "coerce" =>
    /\ result.num.t = "num" /\ result.num = Coerced(result.raw)
    /\ result.asNumber.t = "num" /\ result.asNumber = Coerced(result.raw)

\* the places in keys of the candidates present on row
PresentAt(row, keys) == {i \in 1..Len(keys) : keys[i] \in DOMAIN row}

\* the places in keys of the candidates present with a coerced value other
\* than 0
NonZeroAt(row, keys) ==
  {i \in PresentAt(row, keys) : Coerced(row[keys[i]]) # Num(0)}

Least(S) == CHOOSE i \in S : \A j \in S : i <= j

\* C16: pickNumber returns the coerced value of the first candidate, in list
\* order, present with a coerced value other than 0; when there is none, the
\* coerced value of the first candidate present, which is 0; and 0 when no
\* candidate is present.
C16_PickFirstNonZero ==
  applied = "pick" =>
    /\ NonZeroAt(result.row, SessionKeys) # {} =>
         result.picked =
           Coerced(result.row[SessionKeys[Least(NonZeroAt(result.row, SessionKeys))]])
    /\ (NonZeroAt(result.row, SessionKeys) = {} /\ PresentAt(result.row, SessionKeys) # {}) =>
         /\ result.picked =
              Coerced(result.row[SessionKeys[Least(PresentAt(result.row, SessionKeys))]])
         /\ result.picked = Num(0)
    /\ PresentAt(result.row, SessionKeys) = {} => result.picked = Num(0)

C16_Witness ==
  /\ applied = "pick"
  /\ DOMAIN result.row = {"totalSessionCount", "totalSessions"}
  /\ result.row["totalSessionCount"] = Num(0)
  /\ result.row["totalSessions"] = Str(<<"1", "0">>)
  /\ result.picked = Num(10)

-----------------------------------------------------------------------------
(* Further properties of the cache and the routes (under Spec)              *)

\* the keys whose entry the step writes
Written(c, d) == {k \in DOMAIN d : k \notin DOMAIN c \/ d[k] # c[k]}

\* C17: every write of the cache is the whole entry of one successful fetch:
\* payload and expiresAt both come from the fetch that completes in the step,
\* under the key that fetch was issued for; no entry is removed or changed
\* otherwise, and a fetch in flight keeps its key and start time.
C17_WholeEntries ==
  [][ /\ DOMAIN cache \subseteq DOMAIN cache'
      /\ Cardinality(Written(cache, cache')) <= 1
      /\ \A k \in Written(cache, cache') :
           /\ last'.ev = "fetchOk"
           /\ \E s \in Slots :
                /\ Awaiting(inflight, s)
                /\ inflight'[s] # inflight[s]
                /\ inflight[s].key = k
                /\ cache'[k].payload.id = inflight[s].id
                /\ cache'[k].expiresAt = inflight[s].now + TTL_MS
                /\ DOMAIN cache'[k] = {"expiresAt", "payload"}
      /\ \A s \in Slots :
           (Awaiting(inflight, s) /\ Awaiting(inflight', s)
              /\ inflight'[s].id = inflight[s].id) => inflight'[s] = inflight[s]
      /\ \A s \in Slots :
           (Awaiting(inflight', s) /\ inflight'[s].id > nUpstream) =>
             \E c \in CallsOf(last') :
               /\ ~c.hit
               /\ inflight'[s].key = c.key
               /\ inflight'[s].now = c.now
               /\ c.key = <<"FULL", c.numOfDays, c.dims[1], c.dims[2], c.dims[3]>>
    ]_vars

C17_Witness ==
  /\ last.ev = "fetchOk"
  /\ last.fin.prev # Null
  /\ last.fin.prev.payload.id > last.fin.id
  /\ cache[last.fin.key].payload.id = last.fin.id
  /\ cache[last.fin.key].expiresAt = last.fin.now + TTL_MS
  /\ cache[last.fin.key].expiresAt # last.fin.prev.expiresAt

\* the slot whose fetch the step described by l completes, f being the calls
\* in flight before the step
Completing(l, f) ==
  CHOOSE s \in Slots : f[s].pc = "await" /\ f[s].id = l.fin.id

\* the step hands the route the export of its first call
GetsFirst(l, f) ==
  IF l.ev = "request" THEN l.calls # <<>> /\ l.calls[1].hit
  ELSE l.fin.ok /\ f[Completing(l, f)].stage = 1

FirstExport(l) ==
  IF l.ev = "request" THEN l.calls[1].ret.json ELSE l.fin.ret.json

\* the step makes the Source+Medium+URL call
AsksSecond(l) == \E c \in CallsOf(l) : c.dims = Dims("googleads", 2)

GoogleCpcAnswer(json, target) ==
  [mode |-> "source_medium_url_google_cpc",
   r |-> aggregateAllMetricsFromExport(json, Str(target), "sourceMedium")]

\* what the route does once it has the Channel aggregate r1
AfterChannel(l, r1) ==
  IF r1.matchedRows > 0
  THEN /\ l.status = 200
       /\ l.body = [mode |-> "channel_url_paid_search", r |-> r1]
       /\ ~AsksSecond(l)
  ELSE /\ AsksSecond(l)
       /\ IF l.calls[Len(l.calls)].hit
          THEN /\ l.status = 200
               /\ l.body = GoogleCpcAnswer(l.calls[Len(l.calls)].ret.json, l.target)
          ELSE l.status = 0

\* what the route does when its second call returns or throws
AfterSourceMedium(l, first) ==
  /\ aggregateAllMetricsFromExport(first, Str(l.target), "channel").matchedRows = 0
  /\ IF l.fin.ok
     THEN /\ l.status = 200
          /\ l.body = GoogleCpcAnswer(l.fin.ret.json, l.target)
     ELSE /\ l.status = 502
          /\ l.body = [error |-> "Upstream error"]

\* C18: /metrics-googleads aggregates the Channel+URL export with
\* isPaidSearchChannel first; with matchedRows > 0 it answers that aggregate
\* in mode channel_url_paid_search and makes no Source+Medium+URL call, from
\* the cache or upstream; only with zero matched rows it makes that call and
\* answers the isGoogleCpc aggregate of its export alone; when that second
\* fetch fails the request answers 502.
C18_ClassifiersInOrder ==
  [][ (last'.ev # "none" /\ last'.ep = "googleads" /\ last'.status # 400) =>
        /\ GetsFirst(last', inflight) =>
             AfterChannel(last',
               aggregateAllMetricsFromExport(FirstExport(last'),
                                             Str(last'.target), "channel"))
        /\ (last'.ev # "request" /\ ~GetsFirst(last', inflight)) =>
             IF inflight[Completing(last', inflight)].stage = 2
             THEN AfterSourceMedium(last',
                    inflight[Completing(last', inflight)].first.json)
             ELSE last'.status = 502 /\ ~AsksSecond(last')
        /\ (last'.ev = "request" /\ ~GetsFirst(last', inflight)) =>
             last'.status = 0 /\ ~AsksSecond(last')
        /\ (last'.status = 200
              /\ last'.body.mode = "channel_url_paid_search") =>
             nUpstream' = nUpstream
    ]_vars

C18_Witness ==
  /\ last.ev = "fetchOk"
  /\ last.ep = "googleads"
  /\ last.status = 200
  /\ last.body.mode = "source_medium_url_google_cpc"
  /\ last.body.r.matchedRows > 0
  /\ \E k \in DOMAIN cache : k # last.fin.key /\ cache[k].payload.id < last.fin.id

\* C19: a successful fetch stores, whatever entry its key has, its own
\* payload with expiresAt = the clock value its call read before the await +
\* TTL_MS, so the entry in the cache is that of the fetch that completed last,
\* also when it replaces an entry that expires later.
C19_LastCompletionWins ==
  [][ /\ \A s \in Slots :
           (Awaiting(inflight', s) /\ inflight'[s].id > nUpstream) =>
             inflight'[s].now = clock /\ clock' = clock
      /\ last'.ev = "fetchOk" =>
           /\ last'.fin.now = inflight[Completing(last', inflight)].now
           /\ last'.fin.now <= clock
           /\ last'.fin.prev = CacheGet(cache, last'.fin.key)
           /\ cache'[last'.fin.key] =
                [expiresAt |-> last'.fin.now + TTL_MS, payload |-> last'.fin.ret]
    ]_vars

C19_Witness ==
  /\ last.ev = "fetchOk"
  /\ last.fin.prev # Null
  /\ last.fin.prev.expiresAt > cache[last.fin.key].expiresAt
  /\ last.fin.prev.payload.id > last.fin.id
  /\ last.fin.now < clock
  /\ cache[last.fin.key].payload = last.fin.ret

====
